---- MODULE Spec2Model ----
(***************************************************************************)
(* pimpmyplus: the disk image builder (disk.py), the DiskCopy header       *)
(* reader (diskcopyimage.py), the architecture probe (applicationutil.py)  *)
(* and the volume packer (preparevolume.py).                               *)
(*                                                                         *)
(* Byte strings are modelled by their lengths, file names by tuples of     *)
(* one-character strings.  The output stream `of` is the sequence of       *)
(* write() calls made on it, each a record carrying its length in bytes.   *)
(***************************************************************************)
EXTENDS Integers, Sequences, FiniteSets, TLC

VARIABLES
    block_count,   \* create_bootable_disk: the block_count argument
    driver_info,   \* the DriverIni parsed from driver.ini
    driver_bin,    \* length in bytes of the file driver.bin
    disk,          \* create_bootable_disk: position, loop counters, stream
    args,          \* the parsed command line
    dl_folder,     \* the files of the download folder
    files,         \* os.listdir(args.dl_folder), sorted
    index,         \* the entry of `files` the main loop is at
    target_size,   \* the packing budget in bytes
    volume_manager,\* VolumeManager: volume_index, bytes_taken, volume
    result,        \* what add_file gave for the current entry
    caught,        \* the exception the main loop caught for this entry
    outputs,       \* the collection.<n>.scsi files opened for writing
    pc             \* where the main script is

diskVars == <<block_count, driver_info, driver_bin, disk>>

packVars ==
    <<args, dl_folder, files, index, target_size, volume_manager, result,
      caught, outputs, pc>>

vars == <<diskVars, packVars>>

----------------------------------------------------------------------------
(* Arithmetic helpers *)

Min(a, b) == IF a < b THEN a ELSE b

Max(a, b) == IF a > b THEN a ELSE b

\* Python int(x / d) for an integer x and d > 0: truncation toward zero.
TruncDiv(x, d) == IF x >= 0 THEN x \div d ELSE -((-x) \div d)

\* ctypes c_uint32 / c_uint16 fields keep the low bits, without a range check.
\* A c_uint32 is held as its two 16-bit halves: 2^32 is beyond the integers
\* the model checker computes with.
U32(x) == [hi |-> (x \div 65536) % 65536, lo |-> x % 65536]

\* The number a c_uint32 holds, for values below 2^31.
U32Value(w) == w.hi * 65536 + w.lo

U16(x) == x % 65536

----------------------------------------------------------------------------
(* disk.py: records *)

BLOCK_SIZE == 512

DRIVER_START == 64

DRIVER_BLOCKS == 32

PARTITION_MAP_START == 1

PARTITION_MAP_BLOCKS == 63

MAP_ENTRIES == 3

SB_SIG == 17746          \* 0x4552

DPME_SIG == 20557        \* 0x504d

DD_DRIVERS == 61

\* sizeof(DriverDescriptor): c_uint32 + c_uint16 + c_uint16, packed.
SizeofDriverDescriptor == 4 + 2 + 2

\* sizeof(Block0), packed, field by field.
SizeofBlock0 ==
    2 + 2 + 4 + 2 + 2 + 4 + 2 + DD_DRIVERS * SizeofDriverDescriptor + 4 + 2

\* sizeof(PartitionMapBlock), packed, field by field.
SizeofPartitionMapBlock ==
    2 + 2 + 4 + 4 + 4 + 32 + 32 + 4 + 4 + 4
    + 4 + 4 + 4 + 4 + 4 + 4 + 4 + 16 + 4 * 32 + 4 * 62

\* DriverDescriptor(): all fields zero.
DriverDescriptor == [ddBlock |-> U32(0), ddSize |-> 0, ddType |-> 0]

\* PartitionMapBlock(): every field zero but the signature.
PartitionMapBlock ==
    [kind |-> "pm", len |-> SizeofPartitionMapBlock,
     dpme_signature |-> DPME_SIG, dpme_map_entries |-> U32(0),
     dpme_pblock_start |-> U32(0), dpme_pblocks |-> U32(0),
     dpme_name |-> "", dpme_type |-> "",
     dpme_lblock_start |-> U32(0), dpme_lblocks |-> U32(0), dpme_flags |-> U32(0),
     dpme_boot_block |-> U32(0), dpme_boot_bytes |-> U32(0),
     dpme_load_addr |-> U32(0), dpme_load_addr_2 |-> U32(0),
     dpme_goto_addr |-> U32(0), dpme_goto_addr_2 |-> U32(0),
     dpme_checksum |-> U32(0), dpme_process_id |-> "", dpme_boot_args |-> <<>>]

create_basic_partition(name, type, start_block, blocks, flags) ==
    [PartitionMapBlock EXCEPT
        !.dpme_pblock_start = U32(start_block),
        !.dpme_pblocks = U32(blocks),
        !.dpme_name = name,
        !.dpme_type = type,
        !.dpme_lblocks = U32(blocks),
        !.dpme_flags = U32(flags)]

\* The partition map described as starting at block 0.
partition_map_partition_from_0 ==
    [PartitionMapBlock EXCEPT
        !.dpme_pblock_start = U32(0),
        !.dpme_pblocks = U32(PARTITION_MAP_BLOCKS),
        !.dpme_name = "Apple",
        !.dpme_type = "Apple_partition_map",
        !.dpme_lblocks = U32(PARTITION_MAP_BLOCKS)]

create_partition_map_partition ==
    [PartitionMapBlock EXCEPT
        !.dpme_pblock_start = U32(PARTITION_MAP_START),
        !.dpme_pblocks = U32(PARTITION_MAP_BLOCKS),
        !.dpme_name = "Apple",
        !.dpme_type = "Apple_partition_map",
        !.dpme_lblocks = U32(PARTITION_MAP_BLOCKS)]

create_driver_partition_block(info, start_block, blocks) ==
    [PartitionMapBlock EXCEPT
        !.dpme_pblock_start = U32(start_block),
        !.dpme_pblocks = U32(blocks),
        !.dpme_name = "Macintosh",
        !.dpme_type = info.partition_type,
        !.dpme_lblocks = U32(blocks),
        !.dpme_flags = U32(info.partition_flags),
        !.dpme_boot_block = U32(info.booter),
        !.dpme_boot_bytes = U32(info.bytes),
        !.dpme_load_addr = U32(info.load_address_0),
        !.dpme_load_addr_2 = U32(info.load_address_1),
        !.dpme_goto_addr = U32(info.goto_address_0),
        !.dpme_goto_addr_2 = U32(info.goto_address_1),
        !.dpme_checksum = U32(info.checksum),
        !.dpme_process_id = info.processor,
        !.dpme_boot_args = info.boot_args]

\* descriptor.ddSize: int(bytes / 512 + (1 if bytes % 512 != 0 else 0)).
dd_size(bytes) ==
    U16(TruncDiv(bytes + (IF bytes % BLOCK_SIZE # 0 THEN BLOCK_SIZE ELSE 0),
                 BLOCK_SIZE))

make_block0(info, blocks) ==
    [kind |-> "block0", len |-> SizeofBlock0,
     sbSig |-> SB_SIG, sbBlkSize |-> BLOCK_SIZE, sbBlkCount |-> U32(blocks),
     sbDevType |-> 1, sbDevId |-> 1, sbData |-> U32(0), sbDrvrCount |-> 1,
     ddDrivers |-> [k \in 1..DD_DRIVERS |->
                      IF k = 1
                      THEN [ddBlock |-> U32(DRIVER_START),
                            ddSize |-> dd_size(info.bytes), ddType |-> 1]
                      ELSE DriverDescriptor]]

----------------------------------------------------------------------------
(* disk.py: create_bootable_disk, one write() per step *)

\* volume_offset = 64 + 32
volume_offset == DRIVER_START + DRIVER_BLOCKS

volume_block_count(blocks) == blocks - volume_offset

\* machfs.Volume.write(size=...): the external encoder.  `how` is what it
\* does: it raises, or returns data that misses `size` by how.miss bytes.
\* A byte string has no negative length.
volume_write(size, how) ==
    IF how.raises \/ size + how.miss < 0
    THEN [raised |-> TRUE, len |-> 0]
    ELSE [raised |-> FALSE, len |-> size + how.miss]

\* f.read(512) on driver.bin at position fpos: what is left, at most 512.
driver_read(fpos, binlen) == Min(BLOCK_SIZE, Max(binlen - fpos, 0))

\* of.write(data): the stream grows by one chunk, the position by its length.
of_write(d, chunk) ==
    [d EXCEPT !.of = Append(d.of, chunk), !.pos = d.pos + chunk.len]

\* len(block0_bytes) != 512 // len(block_bytes) != 512
record_size_ok(n) == n = BLOCK_SIZE

\* len(volume_data) != volume_block_count * 512
payload_size_ok(n, blocks) == n = volume_block_count(blocks) * BLOCK_SIZE

\* The final check left out.
final_size_unchecked(pos, blocks) == TRUE

\* of.tell() != block_count * 512
final_size_ok(pos, blocks) == pos = blocks * BLOCK_SIZE

\* The zero fill stopping one block early.
empty_blocks_left_short(i) == i < DRIVER_START - 1

\* for i in range(1 + 3, 64)
empty_blocks_left(i) == i < DRIVER_START

raise(d, what) == [d EXCEPT !.pc = "raised", !.error = what]

\* write_partition_map_block(block), then go on at `next`.
write_partition_map_block(d, block, next) ==
    IF ~record_size_ok(block.len)
    THEN raise(d, "ValueError")
    ELSE [of_write(d, block) EXCEPT !.pc = next]

\* The builder at its entry: the stream was opened 'wb', so it is empty.
disk_start ==
    [pc |-> "block0", of |-> <<>>, pos |-> 0, i |-> 0, fpos |-> 0,
     error |-> "none"]

disk_idle == [disk_start EXCEPT !.pc = "idle"]

\* One step of create_bootable_disk(of, volume, blocks) with the driver
\* configuration `info`, a driver.bin of `binlen` bytes and an encoder that
\* behaves as `how`.
create_bootable_disk_step(d, info, binlen, blocks, how) ==
    CASE d.pc = "block0" ->
           LET b0 == make_block0(info, blocks) IN
           IF ~record_size_ok(b0.len)
           THEN raise(d, "ValueError")
           ELSE [of_write(d, b0) EXCEPT !.pc = "pm0"]
      [] d.pc = "pm0" ->
           write_partition_map_block(d,
               [create_basic_partition("MacOS", "Apple_HFS", volume_offset,
                                       volume_block_count(blocks), 0)
                   EXCEPT !.dpme_map_entries = U32(MAP_ENTRIES)],
               "pm1")
      [] d.pc = "pm1" ->
           write_partition_map_block(d,
               [create_partition_map_partition
                   EXCEPT !.dpme_map_entries = U32(MAP_ENTRIES)],
               "pm2")
      [] d.pc = "pm2" ->
           [write_partition_map_block(d,
               [create_driver_partition_block(info, DRIVER_START, DRIVER_BLOCKS)
                   EXCEPT !.dpme_map_entries = U32(MAP_ENTRIES)],
               "empty")
             EXCEPT !.i = 1 + MAP_ENTRIES]
      [] d.pc = "empty" ->
           \* for i in range(1 + 3, 64): of.write(empty_block)
           IF empty_blocks_left(d.i)
           THEN [of_write(d, [kind |-> "zero", len |-> BLOCK_SIZE])
                   EXCEPT !.i = d.i + 1]
           ELSE [d EXCEPT !.pc = "driver", !.i = 0]
      [] d.pc = "driver" ->
           \* for i in range(32): of.write(f.read(512))
           IF d.i < DRIVER_BLOCKS
           THEN LET n == driver_read(d.fpos, binlen) IN
                [of_write(d, [kind |-> "driver", len |-> n])
                   EXCEPT !.i = d.i + 1, !.fpos = d.fpos + n]
           ELSE [d EXCEPT !.pc = "volume"]
      [] d.pc = "volume" ->
           LET data == volume_write(volume_block_count(blocks) * BLOCK_SIZE, how)
           IN IF data.raised
              THEN raise(d, "EncoderError")
              ELSE IF ~payload_size_ok(data.len, blocks)
              THEN raise(d, "ValueError")
              ELSE [of_write(d, [kind |-> "volume", len |-> data.len])
                      EXCEPT !.pc = "check"]
      [] d.pc = "check" ->
           IF ~final_size_ok(d.pos, blocks)
           THEN raise(d, "ValueError")
           ELSE [d EXCEPT !.pc = "returned"]
      [] OTHER -> d

disk_done(d) == d.pc \in {"returned", "raised"}

\* create_bootable_disk run from its entry to its return or raise.
RECURSIVE run_disk(_, _, _, _, _)
run_disk(d, info, binlen, blocks, how) ==
    IF disk_done(d) THEN d
    ELSE run_disk(create_bootable_disk_step(d, info, binlen, blocks, how),
                  info, binlen, blocks, how)

create_bootable_disk(info, binlen, blocks, how) ==
    run_disk(disk_start, info, binlen, blocks, how)

----------------------------------------------------------------------------
(* Inputs of the builder *)

\* driver.ini: two configurations, one whose byte length is a whole number
\* of blocks and one whose is not.
DriverA ==
      [partition_type |-> "Apple_Driver43", partition_flags |-> 0,
       booter |-> 0, bytes |-> 1536,
       load_address_0 |-> 0, load_address_1 |-> 0,
       goto_address_0 |-> 0, goto_address_1 |-> 0,
       checksum |-> 61750, processor |-> "68000",
       boot_args |-> <<1, 2>>]

DriverB ==
      [partition_type |-> "Apple_Driver", partition_flags |-> 1,
       booter |-> 1, bytes |-> 1000,
       load_address_0 |-> 4096, load_address_1 |-> 0,
       goto_address_0 |-> 4100, goto_address_1 |-> 0,
       checksum |-> 48879, processor |-> "68000",
       boot_args |-> <<>>]

DriverInis == {DriverA, DriverB}

\* Lengths of driver.bin: the 32 blocks expected, longer, shorter by part of
\* a block, shorter by whole blocks, empty.
DriverBinLens ==
    { DRIVER_BLOCKS * BLOCK_SIZE, (DRIVER_BLOCKS + 1) * BLOCK_SIZE,
      DRIVER_BLOCKS * BLOCK_SIZE - 100, (DRIVER_BLOCKS - 1) * BLOCK_SIZE, 0 }

\* What the external encoder may do with the size it is asked for.
EncoderExact == [raises |-> FALSE, miss |-> 0]

VolumeWriteHows ==
    { [raises |-> FALSE, miss |-> m] : m \in {0, BLOCK_SIZE, -BLOCK_SIZE, -100} }
    \cup { [raises |-> TRUE, miss |-> 0] }

MaxPayloadBlocks == 3

\* Target block counts: below the 96 reserved blocks, exactly 96, and above.
BlockCounts == (volume_offset - 2) .. (volume_offset + MaxPayloadBlocks)

----------------------------------------------------------------------------
(* preparevolume.py: names *)

FOLDER_NAME_MAX == 17

FILE_NAME_MAX == 31

\* Characters the mac_roman codec cannot encode; "U+2603" stands for one
\* such code point.
NotMacRoman == {"U+2603"}

\* s[:n] for n >= 0
Take(s, n) == SubSeq(s, 1, Min(n, Len(s)))

\* Python's s[:k], where a negative k counts from the end.
PySlice(s, k) == IF k >= 0 THEN Take(s, k) ELSE Take(s, Max(Len(s) + k, 0))

\* name.encode('mac_roman', errors='replace')
encode_mac_roman(name) ==
    [k \in 1..Len(name) |-> IF name[k] \in NotMacRoman THEN "?" ELSE name[k]]

\* name.replace(b':', b'?') and the truncation; an empty name raises.
sanitize_hfs_name(name, is_folder) ==
    IF Len(name) < 1
    THEN [raised |-> TRUE, name |-> <<>>]
    ELSE LET val == [k \in 1..Len(name) |->
                        IF name[k] = ":" THEN "?" ELSE name[k]]
         IN [raised |-> FALSE,
             name |-> IF is_folder THEN Take(val, FOLDER_NAME_MAX)
                                   ELSE Take(val, FILE_NAME_MAX)]

sanitize_hfs_name_str(name, is_folder) ==
    sanitize_hfs_name(encode_mac_roman(name), is_folder)

\* block_align(size) inside get_hfs_file_size
block_align(size) ==
    (TruncDiv(size, BLOCK_SIZE) + (IF size % BLOCK_SIZE # 0 THEN 1 ELSE 0))
    * BLOCK_SIZE

\* get_hfs_file_size(file): both forks, each rounded up to whole blocks.
get_hfs_file_size(data_len, rsrc_len) ==
    block_align(data_len) + block_align(rsrc_len)

----------------------------------------------------------------------------
(* applicationutil.py *)

ARCH_68K == "68k"

ARCH_PPC == "PPC"

\* get_supported_archs(rsrc): the list of tags, PPC first; `raised` when the
\* resource fork does not parse (rsrcfork's InvalidResourceFileError).
get_supported_archs(rsrc) ==
    IF ~rsrc.valid
    THEN [raised |-> TRUE, archs |-> <<>>]
    ELSE [raised |-> FALSE,
          archs |-> (IF rsrc.cfrg THEN <<ARCH_PPC>> ELSE <<>>)
                    \o (IF rsrc.code THEN <<ARCH_68K>> ELSE <<>>)]

InList(x, list) == \E k \in 1..Len(list) : list[k] = x

\* A filter that rejects whatever supports PPC.
any_ppc_executable(archs) == InList(ARCH_PPC, archs)

\* add_file: len(supported_archs) > 0 and ARCH_68K not in supported_archs
non_68k_executable(archs) == Len(archs) > 0 /\ ~InList(ARCH_68K, archs)

----------------------------------------------------------------------------
(* diskcopyimage.py *)

NAME_SIZE == 63

DISKCOPY_MAGIC == 256    \* 0x0100

\* read_data reading the payload before it looks at the magic number.
read_data_then_check(header, avail) ==
    LET got == Min(header.data_size, avail) IN
    IF header.magic_number # DISKCOPY_MAGIC
    THEN [error |-> "Invalid Magic Number", read |-> got, len |-> 0]
    ELSE IF got # header.data_size
    THEN [error |-> "Unexpected EOF", read |-> got, len |-> 0]
    ELSE [error |-> "none", read |-> got, len |-> got]

\* DiskCopyImageHeader.read_data(f), with `avail` bytes left in f after the
\* header: what it raises, how many bytes it read from f, what it returns.
read_data(header, avail) ==
    IF header.magic_number # DISKCOPY_MAGIC
    THEN [error |-> "Invalid Magic Number", read |-> 0, len |-> 0]
    ELSE LET got == Min(header.data_size, avail) IN
         IF got # header.data_size
         THEN [error |-> "Unexpected EOF", read |-> got, len |-> 0]
         ELSE [error |-> "none", read |-> got, len |-> got]

\* DiskCopyImageHeader.image_name
image_name(header) == PySlice(header.name, Min(header.name_length, NAME_SIZE))

----------------------------------------------------------------------------
(* preparevolume.py: add_file and what it calls *)

MAX_FILE_SIZE == 5242880   \* 1024 * 1024 * 5

EXT_NONE == <<>>

EXT_TXT == <<".", "t", "x", "t">>

EXT_DMG == <<".", "d", "m", "g">>

EXT_RSRC == <<".", "r", "s", "r", "c">>

EXT_IMG == <<".", "i", "m", "g">>

EXT_IMAGE == <<".", "i", "m", "a", "g", "e">>

EXT_SIT == <<".", "s", "i", "t">>

EXT_DSK == <<".", "d", "s", "k">>

EXT_APP == <<".", "a", "p", "p">>

DS_STORE == <<".", "D", "S", "_", "S", "t", "o", "r", "e">>

NoTree == [dirs |-> <<>>, files |-> <<>>]

NoHeader == [magic_number |-> 0, data_size |-> 0, name_length |-> 0, name |-> <<>>]

NoRsrc == [valid |-> FALSE, cfrg |-> FALSE, code |-> FALSE]

\* A file on disk, as add_file sees it.  os.path.splitext gives (base, ext).
\*   size       length of the file
\*   data_file  for a .rsrc file: whether the file it belongs to exists
\*   sidecar    the AppleDouble file at rsrc_path: "absent", "invalid"
\*              (appledouble.parse raises ValueError) or "parsed"
\*   rsrc_len   length of the resource fork entry of the sidecar (0: none)
\*   rsrc       what rsrcfork makes of that resource fork
\*   header, avail   a DiskCopy image: its header, the bytes after it
\*   fs_ok, fs_files a disk image: whether machfs reads it, and the
\*              <<data length, resource length>> of each file it holds
\*   unar_ok, tree   an archive: unar's verdict, and the extracted directory
File0 ==
    [key |-> 0, base |-> <<"f">>, ext |-> EXT_NONE, size |-> 0,
     data_file |-> FALSE, sidecar |-> "absent", rsrc_len |-> 0, rsrc |-> NoRsrc,
     header |-> NoHeader, avail |-> 0, fs_ok |-> FALSE, fs_files |-> <<>>,
     unar_ok |-> FALSE, tree |-> NoTree]

filename(f) == f.base \o f.ext

\* What add_file and its helpers give back: status "ok" is a returned tuple
\* (file, name, bytes), "none" is a returned None, anything else the class
\* of the exception raised.  `read` counts the payload bytes read from a
\* DiskCopy image.
Returned(kind, name, bytes, read) ==
    [status |-> "ok", kind |-> kind, name |-> name, bytes |-> bytes,
     error |-> "none", read |-> read]

ReturnedNone ==
    [status |-> "none", kind |-> "none", name |-> <<>>, bytes |-> 0,
     error |-> "none", read |-> 0]

Raised(class, msg, read) ==
    [status |-> class, kind |-> "none", name |-> <<>>, bytes |-> 0,
     error |-> msg, read |-> read]

RECURSIVE SumFileSizes(_)
SumFileSizes(fs) ==
    IF fs = <<>> THEN 0
    ELSE get_hfs_file_size(Head(fs)[1], Head(fs)[2]) + SumFileSizes(Tail(fs))

\* add_disk_data: 0 when machfs cannot read the image, else the footprint
\* of every file the image holds.
add_disk_data(f) == IF ~f.fs_ok THEN 0 ELSE SumFileSizes(f.fs_files)

add_dsk(f) ==
    LET n == sanitize_hfs_name_str(f.base, TRUE) IN
    IF n.raised THEN Raised("ValueError", "Invalid empty hfs name", 0)
    ELSE Returned("folder", n.name, add_disk_data(f), 0)

add_img(f) ==
    LET data == read_data(f.header, f.avail) IN
    IF data.error # "none"
    THEN Raised("PreparationIssue", data.error, data.read)
    ELSE LET given == image_name(f.header)
             n == IF Len(given) < 1
                  THEN sanitize_hfs_name_str(f.base, TRUE)
                  ELSE sanitize_hfs_name(given, TRUE)
         IN IF n.raised THEN Raised("ValueError", "Invalid empty hfs name", data.read)
            ELSE Returned("folder", n.name, add_disk_data(f), data.read)

\* The architecture check of add_file on a parsed sidecar: TRUE when the
\* file is rejected.
arch_rejected(f) ==
    LET got == get_supported_archs(f.rsrc)
        supported_archs == IF got.raised THEN <<>> ELSE got.archs
    IN non_68k_executable(supported_archs)

\* size > 1024 * 1024 * 5
too_big(size) == size > MAX_FILE_SIZE

\* The tail of add_file: a plain file, or a .rsrc file with no data file.
add_plain(f, has_data_file) ==
    IF has_data_file /\ too_big(f.size)
    THEN Raised("FilterException", "Contains a file that is greater than 5 MiB", 0)
    ELSE IF f.sidecar = "parsed" /\ arch_rejected(f)
    THEN Raised("FilterException", "Found a non-68k executable.", 0)
    ELSE LET data_len == IF has_data_file THEN f.size ELSE 0
             rsrc_len == IF f.sidecar = "parsed" THEN f.rsrc_len ELSE 0
             n == sanitize_hfs_name_str(
                      IF has_data_file THEN filename(f) ELSE f.base, FALSE)
         IN IF n.raised THEN Raised("ValueError", "Invalid empty hfs name", 0)
            ELSE Returned("file", n.name, get_hfs_file_size(data_len, rsrc_len), 0)

RECURSIVE add_file(_), add_files(_), add_filenames(_, _), add_subdirs(_, _)

add_sit(f) ==
    IF ~f.unar_ok
    THEN Raised("PreparationIssue", "There was an error extracting", 0)
    ELSE LET n == sanitize_hfs_name_str(f.base, TRUE)
             inner == add_files(f.tree)
         IN IF n.raised THEN Raised("ValueError", "Invalid empty hfs name", 0)
            ELSE IF inner.status # "ok" THEN inner
            ELSE Returned("folder", n.name, inner.bytes, 0)

add_file(f) ==
    IF filename(f) = DS_STORE THEN ReturnedNone
    ELSE IF f.ext = EXT_DMG
    THEN Raised("FilterException", "Contains an OSX DMG", 0)
    ELSE IF f.ext = EXT_RSRC /\ f.data_file THEN ReturnedNone
    ELSE IF f.ext = EXT_IMG \/ f.ext = EXT_IMAGE THEN add_img(f)
    ELSE IF f.ext = EXT_SIT THEN add_sit(f)
    ELSE IF f.ext = EXT_DSK THEN add_dsk(f)
    ELSE add_plain(f, ~(f.ext = EXT_RSRC))

\* for filename in filenames: ... total_bytes += file_bytes
add_filenames(fs, total) ==
    IF fs = <<>> THEN Returned("folder", <<>>, total, 0)
    ELSE LET r == add_file(Head(fs)) IN
         IF r.status = "none" THEN add_filenames(Tail(fs), total)
         ELSE IF r.status # "ok" THEN r
         ELSE add_filenames(Tail(fs), total + r.bytes)

\* os.walk goes on into each directory in turn.
add_subdirs(ds, total) ==
    IF ds = <<>> THEN Returned("folder", <<>>, total, 0)
    ELSE LET r == add_files(Head(ds).tree) IN
         IF r.status # "ok" THEN r
         ELSE add_subdirs(Tail(ds), total + r.bytes)

\* add_files(root, path) on the directory `tree`: its directory names
\* first, then its files, then the directories below it.
add_files(tree) ==
    IF \E k \in 1..Len(tree.dirs) : tree.dirs[k].ext = EXT_APP
    THEN Raised("FilterException", ".app directory detected", 0)
    ELSE IF \E k \in 1..Len(tree.dirs) :
               sanitize_hfs_name_str(tree.dirs[k].base \o tree.dirs[k].ext,
                                     TRUE).raised
    THEN Raised("ValueError", "Invalid empty hfs name", 0)
    ELSE LET here == add_filenames(tree.files, 0) IN
         IF here.status # "ok" THEN here
         ELSE add_subdirs(tree.dirs, here.bytes)

----------------------------------------------------------------------------
(* The download folder of the packer runs *)

Plain(base, ext, size) == [File0 EXCEPT !.base = base, !.ext = ext, !.size = size]

Dir(base, ext, tree) == [base |-> base, ext |-> ext, tree |-> tree]

TreeGood ==
    [dirs |-> << Dir(<<"d", "o", "c", "s">>, EXT_NONE,
                     [dirs |-> <<>>,
                      files |-> << Plain(<<"r", "e", "a", "d", "m", "e">>,
                                         EXT_NONE, 513) >>]) >>,
     files |-> << Plain(<<"n", "o", "t", "e">>, EXT_TXT, 10),
                  [Plain(<<"a", "p", "p">>, EXT_NONE, 0) EXCEPT
                      !.sidecar = "parsed", !.rsrc_len = 512,
                      !.rsrc = [valid |-> TRUE, cfrg |-> TRUE, code |-> TRUE]],
                  [Plain(<<"a", "p", "p">>, EXT_RSRC, 600) EXCEPT
                      !.data_file = TRUE] >>]

TreeBadImage ==
    [dirs |-> << Dir(<<"i", "n">>, EXT_NONE,
                     [dirs |-> <<>>,
                      files |-> << [File0 EXCEPT
                          !.base = <<"x">>, !.ext = EXT_IMAGE,
                          !.header = [NoHeader EXCEPT
                                         !.magic_number = DISKCOPY_MAGIC,
                                         !.data_size = 2048],
                          !.avail = 1024] >>]) >>,
     files |-> << Plain(<<"o", "k">>, EXT_TXT, 100) >>]

TreeApp ==
    [dirs |-> << Dir(<<"G", "a", "m", "e">>, EXT_APP, NoTree) >>,
     files |-> << Plain(<<"o", "k">>, EXT_TXT, 100) >>]

\* A Finder droppings file: add_file returns None.
F_ds_store ==
    [File0 EXCEPT !.key = 1,
        !.base = <<".", "D", "S", "_", "S", "t", "o", "r", "e">>,
        !.ext = EXT_NONE,
        !.size = 6148]

\* Plain files without a sidecar: footprints 512 and 1024.
F_a ==
    [File0 EXCEPT !.key = 2,
        !.base = <<"a">>,
        !.ext = EXT_TXT,
        !.size = 500]

F_b ==
    [File0 EXCEPT !.key = 3,
        !.base = <<"b">>,
        !.ext = EXT_TXT,
        !.size = 1000]

\* A raw disk image whose one file takes 4096 bytes.
F_big ==
    [File0 EXCEPT !.key = 4,
        !.base = <<"b", "i", "g">>,
        !.ext = EXT_DSK,
        !.fs_ok = TRUE,
        !.fs_files = << <<4000, 0>> >>]

\* An empty file: footprint 0.
F_c ==
    [File0 EXCEPT !.key = 5,
        !.base = <<"c">>,
        !.ext = EXT_NONE]

\* Rejected by extension.
F_dmg ==
    [File0 EXCEPT !.key = 6,
        !.base = <<"d">>,
        !.ext = EXT_DMG,
        !.size = 700]

\* A DiskCopy image with a bad magic number.
F_img ==
    [File0 EXCEPT !.key = 7,
        !.base = <<"e">>,
        !.ext = EXT_IMG,
        !.header = [NoHeader EXCEPT !.magic_number = 1, !.data_size = 1024],
        !.avail = 1024]

\* An archive holding a good file and, in a folder, a truncated image.
F_sit_img ==
    [File0 EXCEPT !.key = 8,
        !.base = <<"f">>,
        !.ext = EXT_SIT,
        !.unar_ok = TRUE,
        !.tree = TreeBadImage]

\* An archive holding a plain file, a 68k program and a folder.
F_sit ==
    [File0 EXCEPT !.key = 9,
        !.base = <<"g">>,
        !.ext = EXT_SIT,
        !.unar_ok = TRUE,
        !.tree = TreeGood]

\* A raw disk image machfs cannot read: an empty folder of 0 bytes.
F_dsk_bad ==
    [File0 EXCEPT !.key = 10,
        !.base = <<"h">>,
        !.ext = EXT_DSK]

\* An archive holding an application bundle directory.
F_sit_app ==
    [File0 EXCEPT !.key = 11,
        !.base = <<"i">>,
        !.ext = EXT_SIT,
        !.unar_ok = TRUE,
        !.tree = TreeApp]

\* A program for PPC only.
F_ppc ==
    [File0 EXCEPT !.key = 12,
        !.base = <<"p", "p", "c">>,
        !.ext = EXT_NONE,
        !.size = 300,
        !.sidecar = "parsed",
        !.rsrc_len = 700,
        !.rsrc = [valid |-> TRUE, cfrg |-> TRUE, code |-> FALSE]]

\* Two disk images whose names agree in their first 17 characters.
F_vol_a ==
    [File0 EXCEPT !.key = 13,
        !.base = <<"v", "o", "l", "u", "m", "e", "s", " ", "o", "f", " ", "s", "o", "f", "t", "w", "a", "r", "e", " ", "A">>,
        !.ext = EXT_DSK,
        !.fs_ok = TRUE,
        !.fs_files = << <<100, 0>> >>]

F_vol_b ==
    [File0 EXCEPT !.key = 14,
        !.base = <<"v", "o", "l", "u", "m", "e", "s", " ", "o", "f", " ", "s", "o", "f", "t", "w", "a", "r", "e", " ", "B">>,
        !.ext = EXT_DSK,
        !.fs_ok = TRUE,
        !.fs_files = << <<512, 0>> >>]

\* The files a download folder may hold; `key` is the rank of the file's
\* name under str.casefold.
Catalogue ==
    { F_ds_store, F_a, F_b, F_big, F_c,
      F_dmg, F_img, F_sit_img, F_sit, F_dsk_bad,
      F_sit_app, F_ppc, F_vol_a, F_vol_b }

----------------------------------------------------------------------------
(* preparevolume.py: the budget, VolumeManager and the main loop *)

\* A budget that reserves the 64 blocks before the driver only.
target_blocks_less_64(a) ==
    TruncDiv(a.target_blocks * a.hfs_internals_ratio.num,
             a.hfs_internals_ratio.den) - 64

\* int(args.target_blocks * args.hfs_internals_ratio) - 96, the ratio being
\* the fraction num/den: int() truncates toward zero.
target_blocks_per_volume(a) ==
    TruncDiv(a.target_blocks * a.hfs_internals_ratio.num,
             a.hfs_internals_ratio.den) - 96

\* target_size = target_blocks_per_volume * 512
budget_bytes(a) == target_blocks_per_volume(a) * BLOCK_SIZE

\* files.sort(key=str.casefold)
RECURSIVE sorted_files(_)
sorted_files(S) ==
    IF S = {} THEN <<>>
    ELSE LET first == CHOOSE f \in S : \A g \in S : f.key <= g.key
         IN <<first>> \o sorted_files(S \ {first})

EmptyVolume == [n \in {} |-> 0]

\* VolumeManager(start_index)
VolumeManager(start_index) ==
    [volume_index |-> start_index, bytes_taken |-> 0, volume |-> EmptyVolume]

\* An index that is not advanced.
same_volume_index(n) == n

\* self.volume_index += 1
next_volume_index(n) == n + 1

\* The file write_volume opens: collection.<volume_index>.scsi, holding the
\* image of the current volume as far as the builder `d` got.
output_file(vm, d) ==
    [path |-> vm.volume_index, volume_name |-> vm.volume_index,
     volume |-> vm.volume, footprint |-> vm.bytes_taken,
     length |-> d.pos, complete |-> d.pc = "returned"]

\* A write_volume that advances and resets whether or not the builder
\* raised.
write_volume_regardless(vm, d) ==
    [volume_index |-> next_volume_index(vm.volume_index),
     bytes_taken |-> 0, volume |-> EmptyVolume]

\* VolumeManager.write_volume, the builder having ended as `d`: when the
\* builder raised, nothing after the call runs.
write_volume(vm, d) ==
    IF d.pc = "returned"
    THEN [volume_index |-> next_volume_index(vm.volume_index),
          bytes_taken |-> 0, volume |-> EmptyVolume]
    ELSE vm

\* volume_manager.volume[result_filename] = result_file
\* volume_manager.bytes_taken += bytes_taken
insert(vm, r, source) ==
    [vm EXCEPT
        !.volume = [n \in DOMAIN vm.volume \cup {r.name} |->
                       IF n = r.name
                       THEN [source |-> source, kind |-> r.kind,
                             bytes |-> r.bytes]
                       ELSE vm.volume[n]],
        !.bytes_taken = vm.bytes_taken + r.bytes]

\* The budget test with >= for >.
over_budget_at_equal(taken, bytes, budget) == taken + bytes >= budget

\* volume_manager.bytes_taken + bytes_taken > target_size
over_budget(taken, bytes, budget) == taken + bytes > budget

\* An except clause that names FilterException alone.
caught_filter_only(status) == status \in {"FilterException"}

\* except (PreparationIssue, FilterException)
caught_by_loop(status) == status \in {"PreparationIssue", "FilterException"}

\* A loop that stops one entry early.
loop_stops_early(i, list) == i < Len(list)

\* for file in files: whether the loop has another entry
loop_has_next(i, list) == i <= Len(list)

NoArgs ==
    [target_blocks |-> 0, volume_start_index |-> 0,
     hfs_internals_ratio |-> [num |-> 0, den |-> 1]]

\* The module level of preparevolume.py before the loop: the listing is
\* sorted, the manager made, the budget computed.
Setup ==
    /\ pc = "start"
    /\ files' = sorted_files(dl_folder)
    /\ volume_manager' = VolumeManager(args.volume_start_index)
    /\ target_size' = budget_bytes(args)
    /\ index' = 1
    /\ pc' = "loop"
    /\ UNCHANGED <<diskVars, args, dl_folder, result, caught, outputs>>

\* One pass of the loop body up to the flush, or through it when no flush
\* is due: add_file, the except clause, the budget test, the insertion.
AddEntry ==
    /\ pc = "loop"
    /\ loop_has_next(index, files)
    /\ LET r == add_file(files[index]) IN
       IF caught_by_loop(r.status) \/ r.status = "none"
       THEN /\ result' = ReturnedNone
            /\ caught' = [class |-> r.status, msg |-> r.error]
            /\ index' = index + 1
            /\ UNCHANGED <<volume_manager, pc>>
       ELSE IF r.status # "ok"
       THEN /\ pc' = "aborted"
            /\ caught' = [class |-> "none", msg |-> "none"]
            /\ UNCHANGED <<result, index, volume_manager>>
       ELSE /\ result' = r
            /\ caught' = [class |-> "none", msg |-> "none"]
            /\ IF over_budget(volume_manager.bytes_taken, r.bytes, target_size)
               THEN /\ pc' = "flush"
                    /\ UNCHANGED <<index, volume_manager>>
               ELSE /\ volume_manager' =
                          insert(volume_manager, r, files[index].key)
                    /\ index' = index + 1
                    /\ UNCHANGED pc
    /\ UNCHANGED <<diskVars, args, dl_folder, files, target_size, outputs>>

\* Target block counts of the packer runs; with the ratios below the
\* budgets are negative, zero, two, four and twenty-two blocks.
PackTargetBlocks == {96, 98, 118}

\* driver.bin in the packer runs: complete, or 100 bytes short.
PackDriverBins ==
    {DRIVER_BLOCKS * BLOCK_SIZE, DRIVER_BLOCKS * BLOCK_SIZE - 100}

\* How create_bootable_disk ends, for every input a packer run can give it:
\* its position in the stream, and whether it returned or raised.
PackDisks ==
    { [binlen |-> b, blocks |-> t, how |-> h,
       end |-> LET d == create_bootable_disk(DriverA, b, t, h)
               IN [pc |-> d.pc, pos |-> d.pos, error |-> d.error]] :
        b \in PackDriverBins, t \in PackTargetBlocks, h \in VolumeWriteHows }

\* disk.create_bootable_disk(f, self.volume, args.target_blocks)
disk_end(binlen, blocks, how) ==
    (CHOOSE e \in PackDisks :
        e.binlen = binlen /\ e.blocks = blocks /\ e.how = how).end

\* volume_manager.write_volume() at `from`, going on at `to`.
WriteVolume(from, to) ==
    /\ pc = from
    /\ \E how \in VolumeWriteHows :
         LET d == disk_end(driver_bin, args.target_blocks, how)
         IN /\ disk' = [disk_idle EXCEPT !.pc = d.pc, !.pos = d.pos,
                                          !.error = d.error]
            /\ outputs' = Append(outputs, output_file(volume_manager, d))
            /\ volume_manager' = write_volume(volume_manager, d)
            /\ pc' = IF d.pc = "returned" THEN to ELSE "aborted"
    /\ UNCHANGED <<block_count, driver_info, driver_bin, args, dl_folder,
                   files, index, target_size, result, caught>>

\* 'Reached target size, writing a volume.'
Flush == WriteVolume("flush", "insert")

\* The insertion that follows a flush in the loop body.
InsertAfterFlush ==
    /\ pc = "insert"
    /\ volume_manager' = insert(volume_manager, result, files[index].key)
    /\ index' = index + 1
    /\ pc' = "loop"
    /\ UNCHANGED <<diskVars, args, dl_folder, files, target_size, result,
                   caught, outputs>>

\* The loop ends when the list is exhausted.
LoopExit ==
    /\ pc = "loop"
    /\ ~loop_has_next(index, files)
    /\ pc' = "final"
    /\ UNCHANGED <<diskVars, args, dl_folder, files, index, target_size,
                   volume_manager, result, caught, outputs>>

\* volume_manager.write_volume() after the loop, then print('Done!').
FinalFlush == WriteVolume("final", "done")

MaxFiles == 3

Ratios == { [num |-> 85, den |-> 100], [num |-> 1, den |-> 1] }

StartIndexes == {0, 7}

NoCaught == [class |-> "none", msg |-> "none"]

InitPack ==
    /\ args \in [target_blocks : PackTargetBlocks,
                 volume_start_index : StartIndexes,
                 hfs_internals_ratio : Ratios]
    /\ dl_folder \in { S \in SUBSET Catalogue : Cardinality(S) <= MaxFiles }
    /\ block_count = args.target_blocks
    /\ driver_info = DriverA
    /\ driver_bin \in PackDriverBins
    /\ disk = disk_idle
    /\ files = <<>>
    /\ index = 0
    /\ target_size = 0
    /\ volume_manager = VolumeManager(0)
    /\ result = ReturnedNone
    /\ caught = NoCaught
    /\ outputs = <<>>
    /\ pc = "start"

NextPack ==
    \/ Setup
    \/ AddEntry
    \/ Flush
    \/ InsertAfterFlush
    \/ LoopExit
    \/ FinalFlush

SpecPack == InitPack /\ [][NextPack]_vars

----------------------------------------------------------------------------
(* The builder as a state machine *)

InitDisk ==
    /\ block_count \in BlockCounts
    /\ driver_info \in DriverInis
    /\ driver_bin \in DriverBinLens
    /\ disk = disk_start
    /\ args = NoArgs
    /\ dl_folder = {}
    /\ files = <<>>
    /\ index = 0
    /\ target_size = 0
    /\ volume_manager = VolumeManager(0)
    /\ result = ReturnedNone
    /\ caught = NoCaught
    /\ outputs = <<>>
    /\ pc = "idle"

\* A step that writes to the stream or moves on without calling the encoder.
DiskStep ==
    /\ ~disk_done(disk)
    /\ disk.pc # "volume"
    /\ disk' = create_bootable_disk_step(disk, driver_info, driver_bin,
                                         block_count, EncoderExact)
    /\ UNCHANGED <<block_count, driver_info, driver_bin, packVars>>

\* The step that calls volume.write and appends what it returns.
DiskVolume ==
    /\ disk.pc = "volume"
    /\ \E how \in VolumeWriteHows :
          disk' = create_bootable_disk_step(disk, driver_info, driver_bin,
                                            block_count, how)
    /\ UNCHANGED <<block_count, driver_info, driver_bin, packVars>>

NextDisk == DiskStep \/ DiskVolume

SpecDisk == InitDisk /\ [][NextDisk]_vars

----------------------------------------------------------------------------
(* add_file on one file at a time *)

\* Plain files, and .rsrc files whose data file is missing: every size
\* around the 5 MiB cap, every state of the sidecar, every resource fork.
PlainInputs ==
    { [File0 EXCEPT !.base = <<"p">>, !.ext = e, !.size = sz, !.sidecar = sc,
                    !.rsrc_len = rl, !.rsrc = r] :
        e \in {EXT_TXT, EXT_RSRC},
        sz \in {0, 1000, MAX_FILE_SIZE, MAX_FILE_SIZE + 1},
        sc \in {"absent", "invalid", "parsed"},
        rl \in {0, 700},
        r \in [valid : BOOLEAN, cfrg : BOOLEAN, code : BOOLEAN] }

\* DiskCopy images: good and bad magic numbers, payloads shorter than,
\* equal to and longer than the declared size, named and unnamed.
ImageInputs ==
    { [File0 EXCEPT !.base = <<"m">>, !.ext = e,
                    !.header = [magic_number |-> m, data_size |-> ds,
                                name_length |-> nl,
                                name |-> <<"A", ":", "b">>],
                    !.avail = av, !.fs_ok = ok,
                    !.fs_files = << <<1000, 0>> >>] :
        e \in {EXT_IMG, EXT_IMAGE},
        m \in {DISKCOPY_MAGIC, 0, 1},
        ds \in {0, 1024, 2048},
        av \in {0, 1024, 1500, 4096},
        nl \in {0, 2},
        ok \in BOOLEAN }

AddFileInputs == PlainInputs \cup ImageInputs \cup Catalogue

InitAddFile ==
    /\ files \in { <<f>> : f \in AddFileInputs }
    /\ index = 1
    /\ result = ReturnedNone
    /\ caught = NoCaught
    /\ pc = "call"
    /\ args = NoArgs
    /\ dl_folder = {}
    /\ target_size = 0
    /\ volume_manager = VolumeManager(0)
    /\ outputs = <<>>
    /\ block_count = 0
    /\ driver_info = DriverA
    /\ driver_bin = 0
    /\ disk = disk_idle

\* result = add_file(path)
CallAddFile ==
    /\ pc = "call"
    /\ result' = add_file(files[index])
    /\ pc' = "called"
    /\ UNCHANGED <<diskVars, args, dl_folder, files, index, target_size,
                   volume_manager, caught, outputs>>

NextAddFile == CallAddFile

SpecAddFile == InitAddFile /\ [][NextAddFile]_vars

----------------------------------------------------------------------------
(* The budget computation over a range of command lines *)

MaxBudgetBlocks == 40

\* Target block counts: small ones, the one of the documented example and
\* the default of 1 GiB.
BudgetTargetBlocks == (0 .. MaxBudgetBlocks) \cup {2048, 2097152}

BudgetRatios ==
    { [num |-> 85, den |-> 100], [num |-> 1, den |-> 1],
      [num |-> 1, den |-> 2] }

InitBudget ==
    /\ args \in [target_blocks : BudgetTargetBlocks,
                 volume_start_index : {0},
                 hfs_internals_ratio : BudgetRatios]
    /\ dl_folder = {}
    /\ block_count = args.target_blocks
    /\ driver_info = DriverA
    /\ driver_bin = DRIVER_BLOCKS * BLOCK_SIZE
    /\ disk = disk_idle
    /\ files = <<>>
    /\ index = 0
    /\ target_size = 0
    /\ volume_manager = VolumeManager(0)
    /\ result = ReturnedNone
    /\ caught = NoCaught
    /\ outputs = <<>>
    /\ pc = "start"

NextBudget == Setup

SpecBudget == InitBudget /\ [][NextBudget]_vars

----------------------------------------------------------------------------
(* Properties of the image builder, checked under SpecDisk *)

RECURSIVE StreamLength(_)
StreamLength(of) ==
    IF of = <<>> THEN 0 ELSE Head(of).len + StreamLength(Tail(of))

\* The byte offset at which the k-th write of the stream starts.
OffsetOf(of, k) == StreamLength(SubSeq(of, 1, k - 1))

IsPartitionEntry(chunk) == chunk.kind = "pm"

\* C1: whenever create_bootable_disk returns, the stream is exactly
\* block_count * 512 bytes long and the position is at its end; a run that
\* ends with a stream of any other length ends by raising.
C1_ImageLength ==
    /\ disk.pc = "returned" =>
          /\ disk.pos = block_count * 512
          /\ StreamLength(disk.of) = block_count * 512
          /\ disk.error = "none"
    /\ (disk_done(disk) /\ StreamLength(disk.of) # block_count * 512) =>
          disk.pc = "raised"

C1_Witness ==
    /\ disk.pc = "returned"
    /\ block_count = 99
    /\ StreamLength(disk.of) = 99 * 512

\* C3: every write made so far sits at its fixed block offset: block 0 is
\* the boot block, blocks 1-3 the populated partition map entries, blocks
\* 4-63 zero blocks; in an image that was returned blocks 64-95 are the 32
\* driver blocks and the payload starts at block 96 and is block_count - 96
\* blocks long.
C3_Layout ==
    /\ \A k \in 1..Len(disk.of) :
          k <= 64 =>
             /\ OffsetOf(disk.of, k) = (k - 1) * 512
             /\ disk.of[k].len = 512
             /\ disk.of[k].kind = IF k = 1 THEN "block0"
                                  ELSE IF k <= 4 THEN "pm" ELSE "zero"
    /\ disk.pc = "returned" =>
          /\ Len(disk.of) = 97
          /\ \A k \in 65..96 :
                /\ disk.of[k].kind = "driver"
                /\ disk.of[k].len = 512
                /\ OffsetOf(disk.of, k) = (k - 1) * 512
          /\ disk.of[97].kind = "volume"
          /\ OffsetOf(disk.of, 97) = 96 * 512
          /\ disk.of[97].len = (block_count - 96) * 512

C3_Witness ==
    /\ disk.pc = "returned"
    /\ block_count = 98
    /\ Len(disk.of) = 97
    /\ disk.of[97].len = 2 * 512

\* C4: once the partition map has been written the stream holds exactly
\* three partition map entries, right after the boot block: the volume
\* partition (start 96, block_count - 96 blocks for a block count of at
\* least 96), the partition map partition (start 1, 63 blocks) and the
\* driver partition (start 64, 32 blocks); map_entries is 3 in all three.
\* Before that it holds the first ones of these, and never more than three.
C4_PartitionMap ==
    LET pm == SelectSeq(disk.of, IsPartitionEntry) IN
    /\ Len(pm) <= 3
    /\ pm = SubSeq(disk.of, 2, 1 + Len(pm))
    /\ Len(disk.of) >= 4 => Len(pm) = 3
    /\ \A k \in 1..Len(pm) : pm[k].dpme_map_entries = [hi |-> 0, lo |-> 3]
    /\ Len(pm) >= 1 =>
          /\ pm[1].dpme_name = "MacOS" /\ pm[1].dpme_type = "Apple_HFS"
          /\ pm[1].dpme_pblock_start = [hi |-> 0, lo |-> 96]
          /\ block_count >= 96 =>
                pm[1].dpme_pblocks = [hi |-> 0, lo |-> block_count - 96]
    /\ Len(pm) >= 2 =>
          /\ pm[2].dpme_type = "Apple_partition_map"
          /\ pm[2].dpme_pblock_start = [hi |-> 0, lo |-> 1]
          /\ pm[2].dpme_pblocks = [hi |-> 0, lo |-> 63]
    /\ Len(pm) >= 3 =>
          /\ pm[3].dpme_type = driver_info.partition_type
          /\ pm[3].dpme_pblock_start = [hi |-> 0, lo |-> 64]
          /\ pm[3].dpme_pblocks = [hi |-> 0, lo |-> 32]

C4_Witness ==
    /\ disk.pc = "returned"
    /\ block_count = 99
    /\ Len(SelectSeq(disk.of, IsPartitionEntry)) = 3
    /\ disk.of[2].dpme_pblocks = [hi |-> 0, lo |-> 3]

----------------------------------------------------------------------------
(* Properties of the packer, checked under SpecPack *)

\* A step of the main loop that inserts the current entry into the volume.
InsertionStep ==
    /\ pc \in {"loop", "insert"}
    /\ pc' = "loop"
    /\ index' = index + 1
    /\ result'.status = "ok"

\* C2: after each insertion bytes_taken is at most the budget, unless the
\* volume holds exactly one entry and that entry's own footprint exceeds
\* the budget; an entry is inserted without a flush only when bytes_taken
\* plus its footprint does not exceed the budget, and a flush is started
\* only when it does.
C2_Packing ==
    [][ /\ InsertionStep =>
             \/ volume_manager'.bytes_taken <= target_size
             \/ /\ Cardinality(DOMAIN volume_manager'.volume) = 1
                /\ volume_manager'.volume[result'.name].bytes > target_size
                /\ volume_manager'.bytes_taken = result'.bytes
        /\ (InsertionStep /\ pc = "loop") =>
             volume_manager.bytes_taken + result'.bytes <= target_size
        /\ (pc = "loop" /\ pc' = "flush") =>
             /\ result'.status = "ok"
             /\ volume_manager.bytes_taken + result'.bytes > target_size
             /\ volume_manager' = volume_manager
      ]_vars

C2_Witness ==
    /\ pc = "loop"
    /\ target_size = 2048
    /\ Len(outputs) = 1
    /\ outputs[1].footprint = 1536
    /\ Cardinality(DOMAIN volume_manager.volume) = 1
    /\ volume_manager.bytes_taken = 4096

\* C5: when add_file raises a filter rejection or a preparation failure
\* for the current entry, also from inside an expanded archive, the loop
\* leaves the volume, bytes_taken, the volume index and the output files
\* as they are and goes on to the next entry.
C5_SkipOnError ==
    [][ (/\ pc = "loop"
         /\ index <= Len(files)
         /\ add_file(files[index]).status \in
               {"FilterException", "PreparationIssue"})
        => /\ volume_manager' = volume_manager
           /\ outputs' = outputs
           /\ pc' = "loop"
           /\ index' = index + 1
           /\ caught'.class = add_file(files[index]).status
      ]_vars

C5_Witness ==
    /\ pc = "loop"
    /\ index = 3
    /\ files[2] = F_sit_img
    /\ caught = [class |-> "PreparationIssue", msg |-> "Unexpected EOF"]
    /\ volume_manager.bytes_taken = 512
    /\ DOMAIN volume_manager.volume = {<<"a", ".", "t", "x", "t">>}
    /\ outputs = <<>>

\* The states of the packer state machine.
PackerState ==
    CASE pc \in {"loop", "insert"} -> "Filling"
      [] pc \in {"flush", "final"} -> "Flushing"
      [] pc = "done" -> "Done"
      [] OTHER -> pc

\* C6: the loop starts in Filling at the first entry and takes the entries
\* one by one in order; it leaves Filling for a flush inside the loop only
\* on budget overflow and comes back to insert the same entry; when the
\* list is exhausted it makes one final flush, whatever the volume holds,
\* and only the completion of that flush leads to Done; nothing changes
\* after Done.
C6_StateMachine ==
    /\ [](pc = "done" => /\ index = Len(files) + 1
                         /\ Len(outputs) >= 1
                         /\ outputs[Len(outputs)].complete)
    /\ [][ /\ pc = "start" => (PackerState' = "Filling" /\ index' = 1)
           /\ pc # "start" => (index' = index \/ index' = index + 1)
           /\ (pc # "start" /\ index' = index + 1) =>
                 (PackerState = "Filling" /\ PackerState' = "Filling"
                  /\ index <= Len(files))
           /\ (pc = "loop" /\ pc' = "flush") =>
                 volume_manager.bytes_taken + result'.bytes > target_size
           /\ pc = "flush" => (pc' \in {"insert", "aborted"} /\ index' = index)
           /\ pc = "insert" =>
                 (pc' = "loop"
                  /\ result.name \in DOMAIN volume_manager'.volume)
           /\ (pc = "loop" /\ index > Len(files)) => pc' = "final"
           /\ pc' = "final" => (pc = "loop" /\ index = Len(files) + 1)
           /\ pc' = "done" =>
                 /\ pc = "final"
                 /\ Len(outputs') = Len(outputs) + 1
                 /\ outputs'[Len(outputs')].volume = volume_manager.volume
           /\ pc = "done" => UNCHANGED vars
         ]_vars

C6_Witness ==
    /\ pc = "done"
    /\ Len(files) = 3
    /\ target_size = 2048
    /\ Len(outputs) = 2
    /\ outputs[2].footprint = 512
    /\ outputs[2].complete

\* C7: the k-th output file of a run is collection.<start_index + k - 1>,
\* so no output file is opened twice; only the last one can be incomplete;
\* the volume index is the start index plus the number of complete images;
\* and each flush that completes writes at the current index, advances it
\* by exactly one and leaves an empty volume with bytes_taken 0.
C7_VolumeIndex ==
    /\ [](pc \notin {"start", "idle"} =>
            /\ \A k \in 1..Len(outputs) :
                  /\ outputs[k].path = args.volume_start_index + k - 1
                  /\ k < Len(outputs) => outputs[k].complete
            /\ volume_manager.volume_index =
                  args.volume_start_index
                  + Len(SelectSeq(outputs, LAMBDA o : o.complete)))
    /\ [][ (outputs' # outputs) =>
             /\ outputs' = Append(outputs, outputs'[Len(outputs')])
             /\ outputs'[Len(outputs')].path = volume_manager.volume_index
             /\ outputs'[Len(outputs')].complete =>
                   /\ volume_manager'.volume_index =
                         volume_manager.volume_index + 1
                   /\ volume_manager'.volume = EmptyVolume
                   /\ volume_manager'.bytes_taken = 0
         ]_vars

C7_Witness ==
    /\ pc = "done"
    /\ args.volume_start_index = 7
    /\ Len(outputs) = 3
    /\ outputs[3].path = 9
    /\ outputs[3].complete
    /\ volume_manager.volume_index = 10

\* C11: when the builder raises its size-mismatch ValueError during a
\* flush, in the loop or after it, the run is aborted there: the volume
\* index, the volume and bytes_taken stay as they were, the loop position
\* does not move, the only file written to is the one that flush opened,
\* and nothing changes afterwards.
C11_FatalAbort ==
    [][ /\ (/\ pc \in {"flush", "final"}
            /\ disk'.pc = "raised"
            /\ disk'.error = "ValueError")
           => /\ pc' = "aborted"
              /\ volume_manager' = volume_manager
              /\ index' = index
              /\ result' = result
              /\ SubSeq(outputs', 1, Len(outputs)) = outputs
              /\ Len(outputs') = Len(outputs) + 1
              /\ ~outputs'[Len(outputs')].complete
        /\ pc = "aborted" => UNCHANGED vars
      ]_vars

C11_Witness ==
    /\ pc = "aborted"
    /\ disk.pc = "raised"
    /\ disk.error = "ValueError"
    /\ driver_bin = 32 * 512
    /\ Len(files) = 3
    /\ index = 2
    /\ Len(outputs) = 2
    /\ outputs[1].complete
    /\ ~outputs[2].complete
    /\ volume_manager.volume_index = args.volume_start_index + 1
    /\ volume_manager.bytes_taken = 4096

\* C12: a flush inside the loop always writes a volume that holds at least
\* one entry; an image of an empty volume can only come from the final
\* flush.
C12_NoEmptyFlushInLoop ==
    /\ pc = "flush" => DOMAIN volume_manager.volume # {}
    /\ \A k \in 1..Len(outputs) :
          DOMAIN outputs[k].volume = {} =>
             /\ k = Len(outputs)
             /\ index = Len(files) + 1
             /\ pc \in {"done", "aborted"}

\* The footprints of the entries a volume holds, added up.
RECURSIVE SumHeld(_, _)
SumHeld(volume, names) ==
    IF names = {} THEN 0
    ELSE LET n == CHOOSE x \in names : TRUE
         IN volume[n].bytes + SumHeld(volume, names \ {n})

\* The files of the download folder whose entries a volume holds.
SourcesOf(volume) == { volume[n].source : n \in DOMAIN volume }

\* C13: bytes_taken is the sum of the footprints of the entries the
\* current volume holds, and every entry the loop has accepted so far is
\* held by the current volume or by a volume already written.
C13_Accounting ==
    /\ volume_manager.bytes_taken =
          SumHeld(volume_manager.volume, DOMAIN volume_manager.volume)
    /\ \A k \in 1..(index - 1) :
          add_file(files[k]).status = "ok" =>
             \/ files[k].key \in SourcesOf(volume_manager.volume)
             \/ \E o \in 1..Len(outputs) :
                   files[k].key \in SourcesOf(outputs[o].volume)

----------------------------------------------------------------------------
(* Properties of add_file, checked under SpecAddFile *)

\* The file add_file was called on is a plain file with a data fork within
\* the size cap and a sidecar that parsed.
PlainWithSidecar(f) ==
    /\ f.ext = EXT_TXT
    /\ f.size <= 5 * 1024 * 1024
    /\ f.sidecar = "parsed"

\* The architecture tags of a resource fork: none when it does not parse.
TagsOf(rsrc) ==
    IF ~rsrc.valid THEN {}
    ELSE (IF rsrc.cfrg THEN {"PPC"} ELSE {})
         \cup (IF rsrc.code THEN {"68k"} ELSE {})

\* C8: a plain file with a parsed sidecar is rejected with a filter
\* rejection when its architecture set is {PPC}, and accepted when the set
\* is {68k}, {PPC, 68k} or empty (also when the fork does not parse).
C8_ArchPolicy ==
    (pc = "called" /\ PlainWithSidecar(files[1])) =>
        IF TagsOf(files[1].rsrc) = {"PPC"}
        THEN result.status = "FilterException"
             /\ result.error = "Found a non-68k executable."
        ELSE result.status = "ok" /\ result.kind = "file"

C8_Witness ==
    /\ pc = "called"
    /\ PlainWithSidecar(files[1])
    /\ files[1].rsrc = [valid |-> TRUE, cfrg |-> TRUE, code |-> TRUE]
    /\ files[1].rsrc_len = 700
    /\ result.status = "ok"
    /\ result.bytes = 1024 + 1024

IsImage(f) == f.ext = EXT_IMG \/ f.ext = EXT_IMAGE

\* C9: on a DiskCopy image a magic number other than 0x0100 fails with the
\* format error and reads no payload; a good magic number with fewer than
\* data_size bytes available fails with the EOF error; otherwise exactly
\* data_size bytes are read and the entry is accepted.  Both failures
\* reach the caller of add_img as a preparation failure.
C9_ImageHeader ==
    (pc = "called" /\ IsImage(files[1])) =>
        LET h == files[1].header IN
        IF h.magic_number # 256
        THEN /\ result.status = "PreparationIssue"
             /\ result.error = "Invalid Magic Number"
             /\ result.read = 0
        ELSE IF files[1].avail < h.data_size
        THEN /\ result.status = "PreparationIssue"
             /\ result.error = "Unexpected EOF"
        ELSE /\ result.status = "ok"
             /\ result.read = h.data_size

C9_Witness ==
    /\ pc = "called"
    /\ IsImage(files[1])
    /\ files[1].header.magic_number = 256
    /\ files[1].header.data_size = 2048
    /\ files[1].avail = 1500
    /\ result.status = "PreparationIssue"
    /\ result.error = "Unexpected EOF"

----------------------------------------------------------------------------
(* The budget, checked under SpecBudget *)

\* The product target_blocks * ratio as the fraction it is.
Product(a) == a.target_blocks * a.hfs_internals_ratio.num

IsExample(a) ==
    /\ a.target_blocks = 2048
    /\ a.hfs_internals_ratio = [num |-> 85, den |-> 100]

\* C10 as stated: the budget is floor(target_blocks * ratio) - 96 blocks
\* of 512 bytes, and for 2048 blocks at 0.85 it is 1645 blocks, 842,240
\* bytes.
C10_AsStated ==
    pc = "loop" =>
        /\ target_size =
              ((Product(args) \div args.hfs_internals_ratio.den) - 96) * 512
        /\ IsExample(args) =>
              (target_size = 1645 * 512 /\ target_size = 842240)

\* C10: for a target block count and a ratio that are not negative the
\* budget is floor(target_blocks * ratio) - 96 blocks of 512 bytes; for
\* 2048 blocks at 0.85 it is 1644 blocks, 841,728 bytes.
C10_Budget ==
    pc = "loop" =>
        /\ target_size =
              ((Product(args) \div args.hfs_internals_ratio.den) - 96) * 512
        /\ IsExample(args) =>
              (target_size = 1644 * 512 /\ target_size = 841728)

C10_Witness ==
    /\ pc = "loop"
    /\ IsExample(args)
    /\ target_size = 841728

====
